---------------------------- MODULE Spec2Model ----------------------------
(***************************************************************************)
(* Model of src/App.py: a one-shot pipeline that authenticates, reads the  *)
(* CSV files of a directory into pandas DataFrames, creates a Power BI     *)
(* push dataset from their schemas, uploads the rows table by table and    *)
(* clones a report onto the new dataset.                                   *)
(*                                                                         *)
(* File names are sequences of one-character strings, so that endswith and *)
(* os.path.splitext are computed and not assumed.  A DataFrame is a record *)
(* [columns, data]: columns is a sequence of [name, dtype], data a sequence*)
(* of rows, each a sequence of cells aligned with columns.  Cells are      *)
(* strings: "1" an integer, "1.5" a float, "True" a boolean, "s" a string, *)
(* "ts" a Timestamp, "NaN" the float not-a-number, "NaT" the null          *)
(* Timestamp, "None" Python's None, "iso" the isoformat() text of "ts".    *)
(*                                                                         *)
(* Two behaviours depend on the installed library versions and are chosen  *)
(* nondeterministically in Init:                                           *)
(*   whereKeepsNaN  DataFrame.where(cond, None) on a float64 column keeps  *)
(*                  NaN (pandas >= 1.3 casts None to the column's NA) or   *)
(*                  upcasts the column to object holding None (older).     *)
(*   jsonRejectsNaN requests.post(json=...) serialises with allow_nan=False*)
(*                  and raises InvalidJSONError on NaN (requests >= 2.26)  *)
(*                  or sends the literal NaN token (older).                *)
(***************************************************************************)
EXTENDS Integers, Sequences, FiniteSets, TLC

VARIABLES
    pc,              \* position of main(): see MainPc
    dirExists,       \* os.path.exists(CSV_DIRECTORY)
    listing,         \* os.listdir(CSV_DIRECTORY): sequence of directory entries
    whereKeepsNaN,   \* pandas build: where(cond, None) keeps NaN in float64 columns
    jsonRejectsNaN,  \* requests build: json= body with NaN raises InvalidJSONError
    access_token,    \* main's access_token ("None" before/without a token)
    dirRead,         \* read_csv_files has been called
    dataframes,      \* main's dataframes: insertion-ordered dict, a sequence of [name, df]
    tables,          \* main's tables: the schemas placed in the creation payload
    dataset_id,      \* main's dataset_id ("None" before/without an id)
    idx,             \* position of the upload loop in dataframes.items()
    log,             \* the HTTP calls issued and the sleep, in order, with their status
    df,              \* argument of the function under check (function specifications)
    df0,             \* the value of that argument when the function was entered
    table_name,      \* argument of convert_df_to_table_schema
    schema,          \* result of convert_df_to_table_schema
    schema2,         \* result of a second call on the same argument
    rows,            \* result of convert_df_to_rows
    fpc              \* position of the function specifications

vars == <<pc, dirExists, listing, whereKeepsNaN, jsonRejectsNaN, access_token,
          dirRead, dataframes, tables, dataset_id, idx, log,
          df, df0, table_name, schema, schema2, rows, fpc>>

mainVars == <<pc, dirExists, listing, jsonRejectsNaN, access_token,
              dirRead, dataframes, tables, dataset_id, idx, log>>

funVars == <<df, df0, table_name, schema, schema2, rows, fpc>>

----------------------------------------------------------------------------
(* Bounds *)

MaxFiles == 2      \* entries in the directory listing
MaxCols == 2       \* columns of a DataFrame in the function specifications
MaxRows == 2       \* rows of a DataFrame in the function specifications

----------------------------------------------------------------------------
(* Strings as character sequences *)

CSV_SUFFIX == <<".", "c", "s", "v">>

\* str.endswith
endswith(s, suffix) ==
    /\ Len(s) >= Len(suffix)
    /\ SubSeq(s, Len(s) - Len(suffix) + 1, Len(s)) = suffix

\* str.rfind, 1-based; 0 when absent
rfind(s, ch) ==
    IF \E i \in 1..Len(s) : s[i] = ch
    THEN CHOOSE i \in 1..Len(s) : s[i] = ch /\ \A j \in (i+1)..Len(s) : s[j] # ch
    ELSE 0

\* os.path.splitext(p)[0]: genericpath._splitext; leading dots of the last
\* path component are not an extension separator
splitext_root(p) ==
    LET sepIndex == rfind(p, "/")
        dotIndex == rfind(p, ".")
    IN IF /\ dotIndex > sepIndex
          /\ \E k \in (sepIndex + 1)..(dotIndex - 1) : p[k] # "."
       THEN SubSeq(p, 1, dotIndex - 1)
       ELSE p

----------------------------------------------------------------------------
(* DataFrames *)

EmptyFrame == [columns |-> <<>>, data |-> <<>>]

\* dtypes pd.read_csv(path) infers without parse_dates
CsvDtypes == {"int64", "float64", "bool", "object"}

\* dtypes of the frames given to convert_df_to_rows
RowDtypes == CsvDtypes \cup {"datetime64[ns]"}

\* dtypes of the frames given to convert_df_to_table_schema
AllDtypes == RowDtypes \cup {"int32", "uint8", "Int64", "float32", "Float64",
                             "boolean", "datetime64[ns, UTC]", "timedelta64[ns]",
                             "category", "string"}

\* the cells a column of the dtype can hold
CellsOf(dtype) ==
    CASE dtype = "int64" -> {"1"}
      [] dtype = "float64" -> {"1.5", "NaN"}
      [] dtype = "bool" -> {"True"}
      [] dtype = "object" -> {"s", "NaN"}
      [] dtype = "datetime64[ns]" -> {"ts", "NaT"}
      [] OTHER -> {"s"}

ColName(i) == CASE i = 1 -> "c1" [] i = 2 -> "c2" [] i = 3 -> "c3" [] OTHER -> "c4"

\* the columns of dtype in dtypes with nr cells
TypedColumns(dtypes, nr) ==
    UNION { { [dtype |-> t, cells |-> cs] : cs \in [1..nr -> CellsOf(t)] } : t \in dtypes }

\* the frames with nc columns of the given dtypes and nr rows
Frames(dtypes, nc, nr) ==
    { [columns |-> [c \in 1..nc |-> [name |-> ColName(c), dtype |-> cols[c].dtype]],
       data |-> [r \in 1..nr |-> [c \in 1..nc |-> cols[c].cells[r]]]] :
        cols \in [1..nc -> TypedColumns(dtypes, nr)] }

\* pd.isnull / pd.notnull on one cell
isnull(x) == x \in {"NaN", "NaT", "None"}
notnull(x) == ~isnull(x)


----------------------------------------------------------------------------
(* convert_df_to_table_schema *)

\* pandas.api.types predicates on a dtype
is_integer_dtype(dtype) == dtype \in {"int64", "int32", "uint8", "Int64"}
is_float_dtype(dtype) == dtype \in {"float64", "float32", "Float64"}
is_bool_dtype(dtype) == dtype \in {"bool", "boolean"}
is_datetime64_any_dtype(dtype) == dtype \in {"datetime64[ns]", "datetime64[ns, UTC]"}

\* a plausible slip: bool tested as a number before the boolean branch
DataTypeOfBoolAsInt(dtype) ==
    IF is_integer_dtype(dtype) \/ is_bool_dtype(dtype) THEN "Int64"
    ELSE IF is_float_dtype(dtype) THEN "Double"
    ELSE IF is_datetime64_any_dtype(dtype) THEN "DateTime"
    ELSE "String"

\* the if/elif chain of convert_df_to_table_schema, default "String"
DataTypeOf(dtype) ==
    IF is_integer_dtype(dtype) THEN "Int64"
    ELSE IF is_float_dtype(dtype) THEN "Double"
    ELSE IF is_bool_dtype(dtype) THEN "Boolean"
    ELSE IF is_datetime64_any_dtype(dtype) THEN "DateTime"
    ELSE "String"

convert_df_to_table_schema(f, name) ==
    [name |-> name,
     columns |-> [i \in 1..Len(f.columns) |->
                    [name |-> f.columns[i].name,
                     dataType |-> DataTypeOf(f.columns[i].dtype)]]]

----------------------------------------------------------------------------
(* convert_df_to_rows *)

\* the loop over df_copy.columns: a datetime column becomes a column of
\* isoformat() strings and None
StringifyDatetimes(f) ==
    [columns |-> [c \in 1..Len(f.columns) |->
                    IF is_datetime64_any_dtype(f.columns[c].dtype)
                    THEN [name |-> f.columns[c].name, dtype |-> "object"]
                    ELSE f.columns[c]],
     data |-> [r \in 1..Len(f.data) |-> [c \in 1..Len(f.columns) |->
                 IF is_datetime64_any_dtype(f.columns[c].dtype)
                 THEN (IF notnull(f.data[r][c]) THEN "iso" ELSE "None")
                 ELSE f.data[r][c]]]]

\* df_copy.where(pd.notnull(df_copy), None): a null cell takes the value None
\* where the column can hold it.  An object column can; a float64 column is
\* either upcast to object (None) or keeps its dtype, None being cast to NaN.
WhereNotnullElseNone(f, keepsNaN) ==
    [columns |-> [c \in 1..Len(f.columns) |->
                    IF f.columns[c].dtype = "float64" /\ ~keepsNaN
                       /\ \E r \in 1..Len(f.data) : isnull(f.data[r][c])
                    THEN [name |-> f.columns[c].name, dtype |-> "object"]
                    ELSE f.columns[c]],
     data |-> [r \in 1..Len(f.data) |-> [c \in 1..Len(f.columns) |->
                 IF notnull(f.data[r][c]) THEN f.data[r][c]
                 ELSE IF f.columns[c].dtype = "float64" /\ keepsNaN THEN "NaN"
                 ELSE "None"]]]

\* DataFrame.to_dict('records'): one dict per row, keyed by column name
to_dict_records(f) ==
    [r \in 1..Len(f.data) |->
        [n \in {f.columns[c].name : c \in 1..Len(f.columns)} |->
            f.data[r][CHOOSE c \in 1..Len(f.columns) : f.columns[c].name = n]]]

convert_df_to_rows(f) ==
    to_dict_records(WhereNotnullElseNone(StringifyDatetimes(f), whereKeepsNaN))

\* json.dumps(rows, allow_nan=False) raises ValueError: some value is NaN
HasNaN(rs) == \E r \in 1..Len(rs) : \E n \in DOMAIN rs[r] : rs[r][n] = "NaN"

----------------------------------------------------------------------------
(* read_csv_files *)

\* dataframes[table_name] = df on an insertion-ordered dict
DictSet(d, k, v) ==
    IF \E i \in 1..Len(d) : d[i].name = k
    THEN [i \in 1..Len(d) |-> IF d[i].name = k THEN [name |-> k, df |-> v] ELSE d[i]]
    ELSE Append(d, [name |-> k, df |-> v])

\* a slip: the scan stops at the first file that fails to parse
RECURSIVE ScanStopsOnError(_, _)
ScanStopsOnError(entries, acc) ==
    IF entries = <<>> THEN acc
    ELSE LET e == Head(entries) IN
         IF ~endswith(e.file, CSV_SUFFIX) THEN ScanStopsOnError(Tail(entries), acc)
         ELSE IF e.parses
              THEN ScanStopsOnError(Tail(entries), DictSet(acc, splitext_root(e.file), e.content))
              ELSE acc

\* the for loop over os.listdir(directory): an entry is read when its name
\* ends with '.csv'; an exception of pd.read_csv is caught and the loop goes on
RECURSIVE Scan(_, _)
Scan(entries, acc) ==
    IF entries = <<>> THEN acc
    ELSE LET e == Head(entries) IN
         IF ~endswith(e.file, CSV_SUFFIX) THEN Scan(Tail(entries), acc)
         ELSE IF e.parses
              THEN Scan(Tail(entries), DictSet(acc, splitext_root(e.file), e.content))
              ELSE Scan(Tail(entries), acc)

read_csv_files(exists, entries) ==
    IF ~exists THEN <<>> ELSE Scan(entries, <<>>)

----------------------------------------------------------------------------
(* Inputs of main() *)

\* file names of the data directory in a run of main()
MainFiles == { <<"a", ".", "c", "s", "v">>, <<"b", ".", "c", "s", "v">>,
               <<"n", ".", "t", "x", "t">> }

\* what pd.read_csv can return for a file of main(): one column, one row
MainFrames == Frames(CsvDtypes, 1, 1)

\* a directory entry: its name, whether pd.read_csv parses it, and the frame
\* it parses to (EmptyFrame when it is never read or does not parse)
Entries(files, frames) ==
    { [file |-> n, parses |-> TRUE, content |-> f] :
        n \in {m \in files : endswith(m, CSV_SUFFIX)}, f \in frames }
    \cup { [file |-> n, parses |-> FALSE, content |-> EmptyFrame] : n \in files }

\* os.listdir: entries of distinct names, in arbitrary order
Listings(files, frames, max) ==
    UNION { { l \in [1..k -> Entries(files, frames)] :
                \A i, j \in 1..k : i # j => l[i].file # l[j].file } : k \in 0..max }

\* statuses and bodies the remote endpoints answer with
TokenStatuses == {200, 401}
TokenBodies == {"tok", ""}
CreateStatuses == {200, 201, 202, 400}
IdBodies == {"ds", ""}
UploadStatuses == {200, 400}
CloneStatuses == {200, 404}

NoName == <<>>

Call(op, name, status) == [op |-> op, table |-> name, status |-> status]

\* Python truthiness of an Optional[str]: `if not x`
Truthy(x) == x # "None" /\ x # ""

----------------------------------------------------------------------------
(* main() *)

InitFun ==
    /\ df = EmptyFrame
    /\ df0 = EmptyFrame
    /\ table_name = ""
    /\ schema = [name |-> "", columns |-> <<>>]
    /\ schema2 = [name |-> "", columns |-> <<>>]
    /\ rows = <<>>
    /\ fpc = "idle"

InitMainIdle ==
    /\ pc = "idle"
    /\ access_token = "None"
    /\ dirRead = FALSE
    /\ dataframes = <<>>
    /\ tables = <<>>
    /\ dataset_id = "None"
    /\ idx = 0
    /\ log = <<>>

Init ==
    /\ pc = "token"
    /\ dirExists \in BOOLEAN
    /\ listing \in (IF dirExists THEN Listings(MainFiles, MainFrames, MaxFiles) ELSE {<<>>})
    /\ whereKeepsNaN \in BOOLEAN
    /\ jsonRejectsNaN \in BOOLEAN
    /\ access_token = "None"
    /\ dirRead = FALSE
    /\ dataframes = <<>>
    /\ tables = <<>>
    /\ dataset_id = "None"
    /\ idx = 0
    /\ log = <<>>
    /\ InitFun

\* get_access_token: the token of the body on 200, None otherwise
TokenOkAny(status) == status < 500
TokenOk(status) == status = 200

\* create_dataset: the id of the body on 201 or 202, None otherwise
CreateOkAny2xx(status) == status >= 200 /\ status < 300
CreateOk(status) == status = 201 \/ status = 202

\* `if not dataframes`
NoDataframesNever(d) == FALSE
NoDataframes(d) == d = <<>>

\* the upload loop is over: every item of dataframes.items() was visited
LoopDoneEarly(i, n) == i >= n
LoopDone(i, n) == i > n

\* main, lines 186-189
GetAccessToken ==
    /\ pc = "token"
    /\ \E status \in TokenStatuses, body \in TokenBodies :
        LET token == IF TokenOk(status) THEN body ELSE "None" IN
        /\ log' = Append(log, Call("token", NoName, status))
        /\ access_token' = token
        /\ pc' = IF Truthy(token) THEN "read" ELSE "aborted"
    /\ UNCHANGED <<dirExists, listing, whereKeepsNaN, jsonRejectsNaN, dirRead,
                   dataframes, tables, dataset_id, idx>>
    /\ UNCHANGED funVars

\* main, lines 192-196
ReadCsvFiles ==
    /\ pc = "read"
    /\ dirRead' = TRUE
    /\ dataframes' = read_csv_files(dirExists, listing)
    /\ pc' = IF NoDataframes(dataframes') THEN "aborted" ELSE "schema"
    /\ UNCHANGED <<dirExists, listing, whereKeepsNaN, jsonRejectsNaN, access_token,
                   tables, dataset_id, idx, log>>
    /\ UNCHANGED funVars

\* main, lines 199-202
BuildSchemas ==
    /\ pc = "schema"
    /\ tables' = [i \in 1..Len(dataframes) |->
                    convert_df_to_table_schema(dataframes[i].df, dataframes[i].name)]
    /\ pc' = "create"
    /\ UNCHANGED <<dirExists, listing, whereKeepsNaN, jsonRejectsNaN, access_token,
                   dirRead, dataframes, dataset_id, idx, log>>
    /\ UNCHANGED funVars

\* main, lines 205-210
CreateDataset ==
    /\ pc = "create"
    /\ \E status \in CreateStatuses, body \in IdBodies :
        LET id == IF CreateOk(status) THEN body ELSE "None" IN
        /\ log' = Append(log, Call("create", NoName, status))
        /\ dataset_id' = id
        /\ pc' = IF Truthy(id) THEN "sleep" ELSE "aborted"
    /\ UNCHANGED <<dirExists, listing, whereKeepsNaN, jsonRejectsNaN, access_token,
                   dirRead, dataframes, tables, idx>>
    /\ UNCHANGED funVars

\* main, lines 213-214: time.sleep(5)
Sleep ==
    /\ pc = "sleep"
    /\ log' = Append(log, Call("sleep", NoName, 0))
    /\ idx' = 1
    /\ pc' = "upload"
    /\ UNCHANGED <<dirExists, listing, whereKeepsNaN, jsonRejectsNaN, access_token,
                   dirRead, dataframes, tables, dataset_id>>
    /\ UNCHANGED funVars

\* main, lines 217-222, one iteration in which requests.post returns a response
Upload ==
    /\ pc = "upload"
    /\ ~LoopDone(idx, Len(dataframes))
    /\ LET data == convert_df_to_rows(dataframes[idx].df) IN
        /\ ~(HasNaN(data) /\ jsonRejectsNaN)
        /\ \E status \in UploadStatuses :
            log' = Append(log, Call("upload", dataframes[idx].name, status))
    /\ idx' = idx + 1
    /\ UNCHANGED <<pc, dirExists, listing, whereKeepsNaN, jsonRejectsNaN, access_token,
                   dirRead, dataframes, tables, dataset_id>>
    /\ UNCHANGED funVars

\* main, lines 217-220, an iteration in which requests.post raises
\* InvalidJSONError while preparing the body: nothing is sent, and the
\* exception leaves upload_data_to_dataset and main uncaught
UploadRaises ==
    /\ pc = "upload"
    /\ ~LoopDone(idx, Len(dataframes))
    /\ HasNaN(convert_df_to_rows(dataframes[idx].df))
    /\ jsonRejectsNaN
    /\ pc' = "crashed"
    /\ UNCHANGED <<dirExists, listing, whereKeepsNaN, jsonRejectsNaN, access_token,
                   dirRead, dataframes, tables, dataset_id, idx, log>>
    /\ UNCHANGED funVars

\* main, line 224: clone_report
CloneReport ==
    /\ pc = "upload"
    /\ LoopDone(idx, Len(dataframes))
    /\ \E status \in CloneStatuses :
        /\ log' = Append(log, Call("clone", NoName, status))
        /\ pc' = IF status = 200 THEN "cloned" ELSE "clone_failed"
    /\ UNCHANGED <<dirExists, listing, whereKeepsNaN, jsonRejectsNaN, access_token,
                   dirRead, dataframes, tables, dataset_id, idx>>
    /\ UNCHANGED funVars

Next ==
    \/ GetAccessToken
    \/ ReadCsvFiles
    \/ BuildSchemas
    \/ CreateDataset
    \/ Sleep
    \/ Upload
    \/ UploadRaises
    \/ CloneReport

Spec == Init /\ [][Next]_vars

----------------------------------------------------------------------------
(* The functions on their own: each specification draws the arguments in  *)
(* its initial state and applies the function.                            *)

\* file names of the data directory for read_csv_files on its own
ReadFiles == MainFiles \cup { <<".", "c", "s", "v">>,
                              <<"a", ".", "b", ".", "c", "s", "v">>,
                              <<"a", "c", "s", "v">>,
                              <<"a", ".", "C", "S", "V">> }

ReadFrames == { f \in MainFrames : f.columns[1].dtype \in {"int64", "object"} }

InitSchema ==
    /\ InitMainIdle
    /\ dirExists = FALSE
    /\ listing = <<>>
    /\ whereKeepsNaN = FALSE
    /\ jsonRejectsNaN = FALSE
    /\ \E nc \in 1..MaxCols : df \in Frames(AllDtypes, nc, 0)
    /\ df0 = df
    /\ table_name \in {"Sales", "Customers"}
    /\ schema = [name |-> "", columns |-> <<>>]
    /\ schema2 = [name |-> "", columns |-> <<>>]
    /\ rows = <<>>
    /\ fpc = "call"

CallSchema ==
    /\ fpc = "call"
    /\ schema' = convert_df_to_table_schema(df, table_name)
    /\ fpc' = "again"
    /\ UNCHANGED <<df, df0, table_name, schema2, rows, whereKeepsNaN>>
    /\ UNCHANGED mainVars

CallSchemaAgain ==
    /\ fpc = "again"
    /\ schema2' = convert_df_to_table_schema(df, table_name)
    /\ fpc' = "done"
    /\ UNCHANGED <<df, df0, table_name, schema, rows, whereKeepsNaN>>
    /\ UNCHANGED mainVars

NextSchema == CallSchema \/ CallSchemaAgain

SpecSchema == InitSchema /\ [][NextSchema]_vars

InitRows ==
    /\ InitMainIdle
    /\ dirExists = FALSE
    /\ listing = <<>>
    /\ whereKeepsNaN \in BOOLEAN
    /\ jsonRejectsNaN = FALSE
    /\ \E nc \in 1..MaxCols, nr \in 0..MaxRows : df \in Frames(RowDtypes, nc, nr)
    /\ df0 = df
    /\ table_name = ""
    /\ schema = [name |-> "", columns |-> <<>>]
    /\ schema2 = [name |-> "", columns |-> <<>>]
    /\ rows = <<>>
    /\ fpc = "call"

CallRows ==
    /\ fpc = "call"
    /\ rows' = convert_df_to_rows(df)
    /\ fpc' = "done"
    /\ UNCHANGED <<df, df0, table_name, schema, schema2, whereKeepsNaN>>
    /\ UNCHANGED mainVars

NextRows == CallRows

SpecRows == InitRows /\ [][NextRows]_vars

InitRead ==
    /\ pc = "idle"
    /\ dirExists \in BOOLEAN
    /\ listing \in (IF dirExists THEN Listings(ReadFiles, ReadFrames, MaxFiles) ELSE {<<>>})
    /\ whereKeepsNaN = FALSE
    /\ jsonRejectsNaN = FALSE
    /\ access_token = "None"
    /\ dirRead = FALSE
    /\ dataframes = <<>>
    /\ tables = <<>>
    /\ dataset_id = "None"
    /\ idx = 0
    /\ log = <<>>
    /\ InitFun

CallRead ==
    /\ pc = "idle"
    /\ ~dirRead
    /\ dirRead' = TRUE
    /\ dataframes' = read_csv_files(dirExists, listing)
    /\ UNCHANGED <<pc, dirExists, listing, whereKeepsNaN, jsonRejectsNaN, access_token,
                   tables, dataset_id, idx, log>>
    /\ UNCHANGED funVars

NextRead == CallRead

SpecRead == InitRead /\ [][NextRead]_vars

----------------------------------------------------------------------------
(* Properties *)

Ops(op) == { i \in 1..Len(log) : log[i].op = op }
Count(op) == Cardinality(Ops(op))
IsRemote(i) == log[i].op # "sleep"
IsUpload(c) == c.op = "upload"
Uploads == SelectSeq(log, IsUpload)
UploadsOf(name) == { i \in Ops("upload") : log[i].table = name }
ReadReturnedEmpty == dirRead /\ dataframes = <<>>
Done == ~ENABLED Next

\* C1 as stated: whenever read_csv_files has returned an empty mapping, no
\* network call of any kind has been made in the run and the run is Aborted.
C1_NoCallAtAll ==
    ReadReturnedEmpty =>
        /\ pc = "aborted"
        /\ \A i \in 1..Len(log) : ~IsRemote(i)

\* C1 amended: whenever read_csv_files has returned an empty mapping, the
\* run is Aborted and the only network call of the run is the one token
\* request that preceded the read, answered 200: no dataset creation, row
\* upload or report clone call is made (and the wait is not entered).
C1_OnlyTokenCall ==
    ReadReturnedEmpty =>
        /\ pc = "aborted"
        /\ log = <<Call("token", NoName, 200)>>

C1_Witness ==
    /\ ReadReturnedEmpty
    /\ dirExists
    /\ Len(listing) = 2
    /\ \E i \in 1..2 : endswith(listing[i].file, CSV_SUFFIX) /\ ~listing[i].parses
    /\ pc = "aborted"

\* C2: once the dataset creation call has returned a status other than 201
\* or 202, the run is Aborted and that call is the last event of the run:
\* no wait, no row upload and no report clone follows it.
C2_CreateFailureAborts ==
    \A i \in Ops("create") :
        log[i].status \notin {201, 202} =>
            /\ pc = "aborted"
            /\ i = Len(log)
            /\ Count("sleep") = 0 /\ Count("upload") = 0 /\ Count("clone") = 0

C2_Witness ==
    /\ pc = "aborted"
    /\ \E i \in Ops("create") : log[i].status = 200
    /\ Len(dataframes) = 2

\* C3 as stated: in a finished run that reached the upload loop, for every
\* table T whose upload call returned a non-200 status, every table after T
\* in the mapping's iteration order got its upload call and the report clone
\* call was issued; the run did not end Aborted.
C3_UploadFailureIsolated ==
    (Done /\ Count("sleep") = 1) =>
        \A t \in 1..Len(dataframes) :
            (\E i \in UploadsOf(dataframes[t].name) : log[i].status # 200) =>
                /\ \A u \in (t + 1)..Len(dataframes) : UploadsOf(dataframes[u].name) # {}
                /\ Count("clone") = 1
                /\ pc \in {"cloned", "clone_failed"}

\* C4: once the token request has returned a non-200 status, the run is
\* Aborted, the data directory has not been read, and the token request is
\* the only call of the run.
C4_TokenFailureAborts ==
    \A i \in Ops("token") :
        log[i].status # 200 =>
            /\ pc = "aborted"
            /\ ~dirRead
            /\ dataframes = <<>>
            /\ Len(log) = 1

C4_Witness ==
    /\ log = <<Call("token", NoName, 401)>>
    /\ pc = "aborted"
    /\ dirExists /\ Len(listing) = 2

\* C5 as stated: the token request, the creation call and the clone call are
\* each issued at most once and each table's upload call at most once; in a
\* finished run in which token acquisition, loading and dataset creation all
\* succeeded, token, creation and clone are each issued exactly once and
\* exactly one upload call is issued per loaded table.
C5_ExactlyOnce ==
    /\ Count("token") <= 1 /\ Count("create") <= 1 /\ Count("clone") <= 1
    /\ \A t \in 1..Len(dataframes) : Cardinality(UploadsOf(dataframes[t].name)) <= 1
    /\ (Done /\ Truthy(access_token) /\ dataframes # <<>> /\ Truthy(dataset_id)) =>
        /\ Count("token") = 1 /\ Count("create") = 1 /\ Count("clone") = 1
        /\ Count("upload") = Len(dataframes)
        /\ \A t \in 1..Len(dataframes) : Cardinality(UploadsOf(dataframes[t].name)) = 1

\* C6: convert_df_to_table_schema(D, n) is named n and has one entry per
\* column of D, in D's order and under D's column names, whose dataType is
\* Int64 for an integer column, else Double for a floating-point one, else
\* Boolean for a boolean one, else DateTime for a datetime one, else String;
\* a second call on the same D returns the same schema, and D is unchanged.
C6_Schema ==
    fpc \in {"again", "done"} =>
        /\ df = df0
        /\ schema.name = table_name
        /\ Len(schema.columns) = Len(df.columns)
        /\ \A c \in 1..Len(df.columns) :
            LET t == df.columns[c].dtype
                dt == schema.columns[c].dataType
            IN /\ schema.columns[c].name = df.columns[c].name
               /\ DOMAIN schema.columns[c] = {"name", "dataType"}
               /\ dt \in {"String", "Int64", "Double", "Boolean", "DateTime"}
               /\ is_integer_dtype(t) => dt = "Int64"
               /\ (~is_integer_dtype(t) /\ is_float_dtype(t)) => dt = "Double"
               /\ (~is_integer_dtype(t) /\ ~is_float_dtype(t) /\ is_bool_dtype(t))
                    => dt = "Boolean"
               /\ (~is_integer_dtype(t) /\ ~is_float_dtype(t) /\ ~is_bool_dtype(t)
                   /\ is_datetime64_any_dtype(t)) => dt = "DateTime"
               /\ (~is_integer_dtype(t) /\ ~is_float_dtype(t) /\ ~is_bool_dtype(t)
                   /\ ~is_datetime64_any_dtype(t)) => dt = "String"
        /\ fpc = "done" => schema2 = schema

C6_Witness ==
    /\ fpc = "done"
    /\ Len(df.columns) = 2
    /\ df.columns[1].dtype = "bool"
    /\ df.columns[2].dtype = "timedelta64[ns]"
    /\ schema.columns[1].dataType = "Boolean"
    /\ schema.columns[2].dataType = "String"

\* C7 as stated: convert_df_to_rows(D) has one row object per row of D, in
\* D's order, and for every row with a null in a non-datetime column the row
\* object has that column's key with the explicit null None, never NaN.
C7_NullsAreNone ==
    fpc = "done" =>
        /\ df = df0
        /\ Len(rows) = Len(df.data)
        /\ \A r \in 1..Len(df.data) : \A c \in 1..Len(df.columns) :
            LET col == df.columns[c] IN
            /\ col.name \in DOMAIN rows[r]
            /\ ~is_datetime64_any_dtype(col.dtype) =>
                 IF isnull(df.data[r][c])
                 THEN rows[r][col.name] = "None"
                 ELSE rows[r][col.name] = df.data[r][c]

\* the name of a '.csv' entry without its '.csv' suffix; a name that is only
\* dots before the suffix (a hidden file such as '.csv') has no extension
BaseName(file) ==
    IF \A k \in 1..(Len(file) - 4) : file[k] = "."
    THEN file
    ELSE SubSeq(file, 1, Len(file) - 4)

Keys(d) == { d[i].name : i \in 1..Len(d) }

\* C8: read_csv_files returns a mapping whose keys are exactly the base names
\* of the listed entries that end in '.csv' and parse, each mapped to its own
\* parsed frame whatever the other entries do; entries without the suffix and
\* entries that fail to parse are absent; a missing directory gives the empty
\* mapping.
C8_ReadIsolatesFailures ==
    dirRead =>
        /\ ~dirExists => dataframes = <<>>
        /\ Keys(dataframes) =
             { BaseName(listing[i].file) :
                 i \in { k \in 1..Len(listing) :
                           endswith(listing[k].file, CSV_SUFFIX) /\ listing[k].parses } }
        /\ \A i, j \in 1..Len(dataframes) : i # j => dataframes[i].name # dataframes[j].name
        /\ \A k \in 1..Len(listing) :
             (endswith(listing[k].file, CSV_SUFFIX) /\ listing[k].parses) =>
                \E i \in 1..Len(dataframes) :
                    /\ dataframes[i].name = BaseName(listing[k].file)
                    /\ dataframes[i].df = listing[k].content

C8_Witness ==
    /\ dirRead
    /\ Len(listing) = 2
    /\ endswith(listing[1].file, CSV_SUFFIX) /\ ~listing[1].parses
    /\ endswith(listing[2].file, CSV_SUFFIX) /\ listing[2].parses
    /\ Len(dataframes) = 1
    /\ dataframes[1].df = listing[2].content

Rank(op) ==
    CASE op = "token" -> 1 [] op = "create" -> 2 [] op = "sleep" -> 3
      [] op = "upload" -> 4 [] OTHER -> 5

\* C9: the events of a run occur in the order token request, dataset
\* creation, the single wait, the upload calls, the clone call; the upload
\* calls follow the iteration order of the loaded mapping, which is the order
\* of the schemas in the creation payload; an upload call is preceded by a
\* successful creation and by the wait; the clone call is preceded by the
\* upload call of every table.
C9_CallOrder ==
    /\ \A i, j \in 1..Len(log) :
        i < j => /\ Rank(log[i].op) <= Rank(log[j].op)
                 /\ Rank(log[i].op) = Rank(log[j].op) => log[i].op = "upload"
    /\ Len(Uploads) <= Len(dataframes)
    /\ \A k \in 1..Len(Uploads) : Uploads[k].table = dataframes[k].name
    /\ \A k \in 1..Len(tables) : tables[k].name = dataframes[k].name
    /\ Count("create") = 1 => Len(tables) = Len(dataframes)
    /\ Count("upload") > 0 =>
        /\ \E i \in Ops("create") : log[i].status \in {201, 202}
        /\ Count("sleep") = 1
    /\ Count("clone") > 0 =>
        /\ Len(Uploads) = Len(dataframes)
        /\ Count("sleep") = 1

C9_Witness ==
    /\ pc = "clone_failed"
    /\ Len(dataframes) = 2
    /\ Count("upload") = 2
    /\ Uploads[1].status = 400

\* C10 as stated: a finished run is either Aborted (an exception that ends
\* the process counted as aborted), with no clone call issued, or past the
\* clone call, which is then the last event of the run; the clone call is
\* issued if and only if the run reached Provisioned.
C10_CloneIffProvisioned ==
    Done =>
        /\ \/ pc \in {"aborted", "crashed"} /\ Count("clone") = 0
           \/ /\ pc \in {"cloned", "clone_failed"}
              /\ Count("clone") = 1
              /\ log[Len(log)].op = "clone"
        /\ Count("clone") = 1 <=> Truthy(dataset_id)

=============================================================================
